---------------------------- MODULE Spec2Model ----------------------------
(***************************************************************************)
(* TurboDL: the URL validator and command wrapper of                       *)
(* video_downloader/security.py and the job registry, job runner and       *)
(* request handlers of video_downloader/main.py.                           *)
(*                                                                         *)
(* Addresses are kept as their groups (4 octets, 8 hextets) so that CIDR   *)
(* containment is computed on the bits, as ipaddress does.  Python's None  *)
(* is the string None where a string is expected, NoAddr where an address  *)
(* is, NoCall where a call record is.                                      *)
(***************************************************************************)
EXTENDS Integers, Sequences, FiniteSets, TLC

VARIABLES
    dns,              \* what the system resolver answers, per host name
    vcall,            \* the last validate_url call: url, result, re-validation
    processing_jobs,  \* main.py:90, job id -> entry
    pc,               \* position of run_merge_task(job_id), per job id
    exc,              \* str(e) of the exception a runner is handling
    disk,             \* the output files that exist under TEMP_DIR
    dirs,             \* job ids whose TEMP_DIR/<job_id> directory exists
    tasks,            \* arguments of the scheduled background task, per job id
    response,         \* what the handler that ran in the last step answered
    proc,             \* safe_subprocess_run: processes spawned so far
    seclog,           \* security.py logger records of safe_subprocess_run
    runres,           \* outcome of the last safe_subprocess_run call
    cookies,          \* the youtube_cookies_*.txt files that exist in TEMP_DIR
    san               \* the last sanitize_filename call: argument and result

vars == <<dns, vcall, processing_jobs, pc, exc, disk, dirs, tasks, response,
          proc, seclog, runres, cookies, san>>

jobVars == <<processing_jobs, pc, exc, disk, dirs, tasks, response>>
runVars == <<proc, seclog, runres>>
sideVars == <<cookies, san>>

None == "None"
NoAddr == [v |-> 0, g |-> <<>>]
NoCall == [none |-> TRUE]

-----------------------------------------------------------------------------
(* Bounds of the model *)

\* job ids the uuid4 generator hands out during one run
MaxJobs == 2
\* safe_subprocess_run calls observed in one run
MaxRuns == 2
\* capacity N the registry is said to be configured with
Capacity == 1

-----------------------------------------------------------------------------
(* ipaddress: addresses, networks, containment *)

IP4(a, b, c, d) == [v |-> 4, g |-> <<a, b, c, d>>]
IP6(a, b, c, d, e, f, g, h) == [v |-> 6, g |-> <<a, b, c, d, e, f, g, h>>]
ip_network(addr, prefixlen) == [addr |-> addr, p |-> prefixlen]

Pow2(n) == 2 ^ n

\* bits of group i (1-based) of width w covered by a prefix of length p
PrefixBits(p, i, w) ==
    LET left == p - w * (i - 1)
    IN  IF left <= 0 THEN 0 ELSE IF left >= w THEN w ELSE left

\* `ip_obj in subnet`: False across versions, else the first p bits agree
InSubnet(ip, net) ==
    /\ ip.v = net.addr.v
    /\ LET w == IF ip.v = 4 THEN 8 ELSE 16
       IN  \A i \in 1..Len(ip.g) :
              LET sh == Pow2(w - PrefixBits(net.p, i, w))
              IN  (ip.g[i] \div sh) = (net.addr.g[i] \div sh)

BLOCKED_SUBNETS ==
    << ip_network(IP4(127, 0, 0, 0), 8),
       ip_network(IP4(10, 0, 0, 0), 8),
       ip_network(IP4(172, 16, 0, 0), 12),
       ip_network(IP4(192, 168, 0, 0), 16),
       ip_network(IP4(169, 254, 0, 0), 16),
       ip_network(IP6(0, 0, 0, 0, 0, 0, 0, 1), 128),
       ip_network(IP6(64512, 0, 0, 0, 0, 0, 0, 0), 7),
       ip_network(IP6(65152, 0, 0, 0, 0, 0, 0, 0), 10) >>

-----------------------------------------------------------------------------
(* The hosts and URLs requests are drawn from *)

\* host names the resolver is asked about (everything else is a literal)
Names == {"example.com", "svc.test"}

\* A records a name may have
ARecords ==
    { NoAddr,
      IP4(93, 184, 216, 34), IP4(126, 255, 255, 255), IP4(127, 0, 0, 1),
      IP4(10, 255, 255, 255), IP4(11, 0, 0, 0),
      IP4(172, 15, 255, 255), IP4(172, 16, 0, 0), IP4(172, 31, 255, 255),
      IP4(172, 32, 0, 0), IP4(192, 168, 1, 1), IP4(192, 169, 0, 0),
      IP4(169, 254, 169, 254), IP4(169, 253, 255, 255) }

\* AAAA records a name may have
AAAARecords ==
    { NoAddr,
      IP6(0, 0, 0, 0, 0, 0, 0, 1), IP6(0, 0, 0, 0, 0, 0, 0, 2),
      IP6(64512, 0, 0, 0, 0, 0, 0, 1), IP6(65023, 65535, 0, 0, 0, 0, 0, 1),
      IP6(64511, 65535, 0, 0, 0, 0, 0, 1),
      IP6(65152, 0, 0, 0, 0, 0, 0, 1), IP6(65215, 65535, 0, 0, 0, 0, 0, 1),
      IP6(65216, 0, 0, 0, 0, 0, 0, 1), IP6(9734, 18176, 0, 0, 0, 0, 0, 1) }

\* the resolver's answers when the server starts
DNS0 ==
    [n \in Names |->
        IF n = "example.com"
        THEN [a |-> IP4(93, 184, 216, 34), aaaa |-> NoAddr]
        ELSE [a |-> IP4(10, 255, 255, 255), aaaa |-> NoAddr]]

\* address literals that occur as hosts, with the address each denotes
LiteralHosts ==
    { "127.0.0.1", "169.254.169.254", "8.8.8.8", "::1", "fd00::1",
      "2606:4700::1" }

LiteralAddr(h) ==
    CASE h = "127.0.0.1"       -> IP4(127, 0, 0, 1)
      [] h = "169.254.169.254" -> IP4(169, 254, 169, 254)
      [] h = "8.8.8.8"         -> IP4(8, 8, 8, 8)
      [] h = "::1"             -> IP6(0, 0, 0, 0, 0, 0, 0, 1)
      [] h = "fd00::1"         -> IP6(64768, 0, 0, 0, 0, 0, 0, 1)
      [] h = "2606:4700::1"    -> IP6(9734, 18176, 0, 0, 0, 0, 0, 1)

\* a URL: its text, and the netloc urlsplit finds in it (all parts empty when
\* the text has no "//" part); bracket is "open" for "[" without "]".
URL(text, netloc) == [text |-> text, netloc |-> netloc]
Netloc(userinfo, host, port, bracket) ==
    [userinfo |-> userinfo, host |-> host, port |-> port, bracket |-> bracket]

Urls ==
    { URL("https://example.com/video", Netloc("", "example.com", "", "no")),
      URL("https://EXAMPLE.com:443/video", Netloc("", "EXAMPLE.com", "443", "no")),
      URL("http://user@svc.test/", Netloc("user", "svc.test", "", "no")),
      URL("http://169.254.169.254/latest/meta-data/",
          Netloc("", "169.254.169.254", "", "no")),
      URL("http://127.0.0.1:8008/", Netloc("", "127.0.0.1", "8008", "no")),
      URL("http://8.8.8.8/", Netloc("", "8.8.8.8", "", "no")),
      URL("http://[::1]/", Netloc("", "::1", "", "closed")),
      URL("http://[fd00::1]:80/", Netloc("", "fd00::1", "80", "closed")),
      URL("http://[2606:4700::1]/", Netloc("", "2606:4700::1", "", "closed")),
      URL("http://[::1/", Netloc("", "::1", "", "open")),
      URL("http://a..b/", Netloc("", "a..b", "", "no")),
      URL("http:///video", Netloc("", "", "", "no")),
      URL("example.com/video", Netloc("", "", "", "no")) }

\* str.lower() on the host texts above
Lower(h) == IF h = "EXAMPLE.com" THEN "example.com" ELSE h


-----------------------------------------------------------------------------
(* security.py: validate_url *)

\* urlparse(url).hostname: None for an empty host, else the host without
\* userinfo, brackets and port, lower-cased
hostname(url) ==
    IF url.netloc.host = "" THEN None ELSE Lower(url.netloc.host)

\* urlparse(url): urlsplit raises ValueError for an unbalanced bracket
urlparse(url) ==
    IF url.netloc.bracket = "open"
    THEN [raised |-> "ValueError", msg |-> "Invalid IPv6 URL"]
    ELSE [raised |-> None, hostname |-> hostname(url)]

\* socket.gethostbyname(host) under the resolver answers d: IPv4 only.  An
\* IPv4 literal is returned as is; an IPv6 literal, a name without an A
\* record and an unknown name end in gaierror; a host the idna codec cannot
\* encode ends in UnicodeError, a ValueError.
gethostbyname(host, d) ==
    IF host \in LiteralHosts
    THEN IF LiteralAddr(host).v = 4
         THEN [raised |-> None, ip |-> LiteralAddr(host)]
         ELSE [raised |-> "gaierror"]
    ELSE IF host \in Names
    THEN IF d[host].a # NoAddr
         THEN [raised |-> None, ip |-> d[host].a]
         ELSE [raised |-> "gaierror"]
    ELSE IF host = "a..b"
    THEN [raised |-> "ValueError", msg |-> "encoding with 'idna' codec failed"]
    ELSE [raised |-> "gaierror"]

\* the loop over BLOCKED_SUBNETS: does some subnet contain ip_obj
InBlockedSubnet(ip) ==
    \E k \in 1..Len(BLOCKED_SUBNETS) : InSubnet(ip, BLOCKED_SUBNETS[k])

Accepted(text) == [kind |-> "ok", value |-> text, ip |-> NoAddr]
ValueError(msg, ip) == [kind |-> "ValueError", msg |-> msg, ip |-> ip]

MsgNoHostname == "Invalid URL: No hostname found"
MsgUnresolved == "Invalid URL: Hostname could not be resolved"
MsgForbidden  == "Access to private network resource (ip) is FORBIDDEN."
MsgFailed     == "URL validation failed"

\* validate_url returning the re-assembled URL (lower-cased host, default
\* port dropped) in place of the text it was given
validate_url_reassembled(url, d) ==
    LET parsed == urlparse(url)
        text == IF url.text = "https://EXAMPLE.com:443/video"
                THEN "https://example.com/video" ELSE url.text
    IN  IF parsed.raised = "ValueError" THEN ValueError(parsed.msg, NoAddr)
        ELSE IF parsed.hostname = None THEN ValueError(MsgNoHostname, NoAddr)
        ELSE LET r == gethostbyname(parsed.hostname, d)
             IN  CASE r.raised = "gaierror"   -> ValueError(MsgUnresolved, NoAddr)
                   [] r.raised = "ValueError" -> ValueError(r.msg, NoAddr)
                   [] r.raised = None ->
                        IF InBlockedSubnet(r.ip)
                        THEN ValueError(MsgForbidden, r.ip)
                        ELSE Accepted(text)
                   [] OTHER -> ValueError(MsgFailed, NoAddr)

\* the try body of validate_url and its three except clauses
validate_url(url, d) ==
    LET parsed == urlparse(url)
    IN  IF parsed.raised = "ValueError" THEN ValueError(parsed.msg, NoAddr)
        ELSE IF parsed.hostname = None THEN ValueError(MsgNoHostname, NoAddr)
        ELSE LET r == gethostbyname(parsed.hostname, d)
             IN  CASE r.raised = "gaierror"   -> ValueError(MsgUnresolved, NoAddr)
                   [] r.raised = "ValueError" -> ValueError(r.msg, NoAddr)
                   [] r.raised = None ->
                        IF InBlockedSubnet(r.ip)
                        THEN ValueError(MsgForbidden, r.ip)
                        ELSE Accepted(url.text)
                   [] OTHER -> ValueError(MsgFailed, NoAddr)

\* the URL a text denotes (the returned value is a string, parsed anew)
UrlOfText(text) == CHOOSE u \in Urls : u.text = text

\* every address the host has: the literal's, or the name's A and AAAA records
HostAddrs(host, d) ==
    IF host \in LiteralHosts THEN {LiteralAddr(host)}
    ELSE IF host \in Names THEN {d[host].a, d[host].aaaa} \ {NoAddr}
    ELSE {}

\* one call of validate_url under the answers d: the addresses the host has,
\* what the resolver answered in that call, and the outcome
Call(url, d) ==
    [url    |-> url,
     addrs  |-> IF urlparse(url).raised = None /\ hostname(url) # None
                THEN HostAddrs(hostname(url), d) ELSE {},
     resolved |-> IF urlparse(url).raised = None /\ hostname(url) # None
                  THEN gethostbyname(hostname(url), d)
                  ELSE [raised |-> "not reached"],
     result |-> validate_url(url, d),
     again  |-> NoCall]

Validate(url) ==
    /\ vcall' = Call(url, dns)
    /\ UNCHANGED <<dns, jobVars, runVars, sideVars>>

\* the caller validates the value it was handed once more
Revalidate ==
    /\ vcall # NoCall
    /\ vcall.again = NoCall
    /\ vcall.result.kind = "ok"
    /\ LET u == UrlOfText(vcall.result.value)
       IN  vcall' = [vcall EXCEPT !.again =
                        [resolved |-> gethostbyname(hostname(u), dns),
                         result |-> validate_url(u, dns)]]
    /\ UNCHANGED <<dns, jobVars, runVars, sideVars>>

\* the resolver's answer for one name changes between two requests
DnsChange(n, ans) ==
    /\ dns[n] # ans
    /\ dns' = [dns EXCEPT ![n] = ans]
    /\ UNCHANGED <<vcall, jobVars, runVars, sideVars>>

\* the answers a name takes in the validator's specification: every record
\* for example.com, one of each kind for svc.test
DnsAnswers(n) ==
    IF n = "example.com"
    THEN {[a |-> x, aaaa |-> NoAddr] : x \in ARecords}
         \cup {[a |-> NoAddr, aaaa |-> y] : y \in AAAARecords}
         \cup {[a |-> IP4(93, 184, 216, 34), aaaa |-> y] : y \in AAAARecords}
    ELSE {[a |-> IP4(10, 255, 255, 255), aaaa |-> NoAddr],
          [a |-> NoAddr, aaaa |-> IP6(64512, 0, 0, 0, 0, 0, 0, 1)],
          [a |-> IP4(93, 184, 216, 34), aaaa |-> NoAddr]}

-----------------------------------------------------------------------------
(* main.py: the job registry *)

JobIds == 1..MaxJobs

\* the output file placed in TEMP_DIR itself: os.path.join(TEMP_DIR, "output.mp4")
OutputFile_in_temp_dir(job_id) == [dir |-> 0, name |-> "output.mp4"]

\* os.path.join(TEMP_DIR, job_id, "output.mp4") and f"/download_file/{job_id}"
OutputFile(job_id) == [dir |-> job_id, name |-> "output.mp4"]
DownloadUrl(job_id) == [route |-> "/download_file", job_id |-> job_id]
NoPath == [dir |-> 0, name |-> ""]
NoUrl == [route |-> "", job_id |-> 0]

\* the dict process_video stores; a key the dict lacks reads as None (.get)
NewJob ==
    [status |-> "queued", progress |-> 0, download_url |-> NoUrl,
     file_path |-> NoPath, error |-> None]

\* str(uuid.uuid4()): an id no entry has
uuid4 == Cardinality(DOMAIN processing_jobs) + 1

\* processing_jobs[job_id][key] = value
SetItem(job_id, key, value) ==
    processing_jobs' = [processing_jobs EXCEPT ![job_id][key] = value]

NoResponse == [code |-> 0]
HTTPException(status_code, detail) ==
    [code |-> status_code, detail |-> detail]

Qualities == {720}

\* str(e) of the ValueError validate_url raised: the message with the address
StrValueError(r) == [msg |-> r.msg, ip |-> r.ip]

\* POST /process_video with the entry stored before the security check
process_video_create_first(url, quality, limited) ==
    /\ Cardinality(DOMAIN processing_jobs) < MaxJobs
    /\ LET r == validate_url(url, dns)
           job_id == uuid4
           stored == [j \in DOMAIN processing_jobs \cup {job_id} |->
                        IF j = job_id THEN NewJob ELSE processing_jobs[j]]
       IN  IF limited
           THEN /\ response' = HTTPException(429, "Rate limit exceeded")
                /\ UNCHANGED <<processing_jobs, pc, tasks>>
           ELSE IF r.kind = "ValueError"
           THEN /\ response' = HTTPException(403, StrValueError(r))
                /\ processing_jobs' = stored
                /\ UNCHANGED <<pc, tasks>>
           ELSE /\ processing_jobs' = stored
                /\ tasks' = [tasks EXCEPT ![job_id] =
                                [url |-> r.value, quality |-> quality]]
                /\ pc' = [pc EXCEPT ![job_id] = "scheduled"]
                /\ response' = [code |-> 200, op |-> "submit", job_id |-> job_id]
    /\ UNCHANGED <<dns, vcall, exc, disk, dirs, runVars, sideVars>>

\* POST /process_video.  limited: slowapi answers 429 before the handler runs.
process_video(url, quality, limited) ==
    /\ Cardinality(DOMAIN processing_jobs) < MaxJobs
    /\ LET r == validate_url(url, dns)
       IN  IF limited
           THEN /\ response' = HTTPException(429, "Rate limit exceeded")
                /\ UNCHANGED <<processing_jobs, pc, tasks>>
           ELSE IF r.kind = "ValueError"
           THEN /\ response' = HTTPException(403, StrValueError(r))
                /\ UNCHANGED <<processing_jobs, pc, tasks>>
           ELSE LET job_id == uuid4
                IN  /\ processing_jobs' =
                          [j \in DOMAIN processing_jobs \cup {job_id} |->
                              IF j = job_id THEN NewJob ELSE processing_jobs[j]]
                    /\ tasks' = [tasks EXCEPT ![job_id] =
                                    [url |-> r.value, quality |-> quality]]
                    /\ pc' = [pc EXCEPT ![job_id] = "scheduled"]
                    /\ response' = [code |-> 200, op |-> "submit", job_id |-> job_id]
    /\ UNCHANGED <<dns, vcall, exc, disk, dirs, runVars, sideVars>>

-----------------------------------------------------------------------------
(* main.py: run_merge_task, one step per statement that writes shared state. *)
(* The task runs on a worker thread (BackgroundTasks runs a plain function   *)
(* in the thread pool), so handlers interleave between any two statements.   *)

NoTask == [url |-> "", quality |-> 0]

\* str(e) of the exceptions os.makedirs and ydl.download raise
ExcTexts == {"", "ERROR: unable to download video data"}
MakedirsErr == "[Errno 28] No space left on device"

At(job_id, label) == job_id \in DOMAIN processing_jobs /\ pc[job_id] = label
Goto(job_id, label) == pc' = [pc EXCEPT ![job_id] = label]
Raise(job_id, text) ==
    /\ exc' = [exc EXCEPT ![job_id] = text]
    /\ Goto(job_id, "L376")

\* line 322
Run_Processing(job_id) ==
    /\ At(job_id, "scheduled")
    /\ SetItem(job_id, "status", "processing")
    /\ Goto(job_id, "L323")
    /\ response' = NoResponse
    /\ UNCHANGED <<dns, vcall, exc, disk, dirs, tasks, runVars, sideVars>>

\* line 323
Run_Progress10(job_id) ==
    /\ At(job_id, "L323")
    /\ SetItem(job_id, "progress", 10)
    /\ Goto(job_id, "L327")
    /\ response' = NoResponse
    /\ UNCHANGED <<dns, vcall, exc, disk, dirs, tasks, runVars, sideVars>>

\* lines 326-365: os.makedirs(job_dir, exist_ok=True) creates the directory
\* or raises OSError; then ydl.download([url]) is entered
Run_Makedirs(job_id, ok) ==
    /\ At(job_id, "L327")
    /\ IF ok
       THEN /\ dirs' = dirs \cup {job_id}
            /\ Goto(job_id, "L365")
            /\ UNCHANGED exc
       ELSE /\ Raise(job_id, MakedirsErr)
            /\ UNCHANGED dirs
    /\ response' = NoResponse
    /\ UNCHANGED <<dns, vcall, processing_jobs, disk, tasks, runVars, sideVars>>

\* a value d.get(key, default) reads: the key is absent, holds None, or holds n
Bytes(n) == [kind |-> "int", n |-> n]
AbsentKey == [kind |-> "absent", n |-> 0]
NoneValue == [kind |-> "None", n |-> 0]

\* the events yt-dlp hands to a progress hook
HookEvents ==
    { [status |-> "downloading", downloaded_bytes |-> Bytes(0),
       total_bytes |-> Bytes(100)],
      [status |-> "downloading", downloaded_bytes |-> Bytes(150),
       total_bytes |-> Bytes(100)],
      [status |-> "downloading", downloaded_bytes |-> Bytes(50),
       total_bytes |-> AbsentKey],
      [status |-> "downloading", downloaded_bytes |-> AbsentKey,
       total_bytes |-> Bytes(0)],
      [status |-> "downloading", downloaded_bytes |-> Bytes(50),
       total_bytes |-> NoneValue],
      [status |-> "finished", downloaded_bytes |-> Bytes(100),
       total_bytes |-> Bytes(100)],
      [status |-> "error", downloaded_bytes |-> AbsentKey,
       total_bytes |-> AbsentKey] }

Min(a, b) == IF a <= b THEN a ELSE b

\* d.get(key, default)
DictGet(v, default) == IF v.kind = "absent" THEN Bytes(default) ELSE v

\* line 353 raises TypeError (a None operand) or ZeroDivisionError
HookRaises(d) ==
    LET dl == DictGet(d.downloaded_bytes, 0)
        tb == DictGet(d.total_bytes, 1)
    IN  dl.kind = "None" \/ tb.kind = "None" \/ tb.n = 0

\* lines 353-354: min(int(downloaded / total * 100 * 0.8), 80)
HookPercent(d) ==
    LET dl == DictGet(d.downloaded_bytes, 0).n
        tb == DictGet(d.total_bytes, 1).n
    IN  Min((dl * 100 * 8) \div (tb * 10), 80)

\* lines 350-358 with the hook writing to the job started last (a module
\* level current job id) instead of the job_id of its own closure
progress_hook_last_job(job_id, d) ==
    /\ At(job_id, "L365")
    /\ LET last == CHOOSE j \in DOMAIN processing_jobs :
                       \A k \in DOMAIN processing_jobs : k <= j
       IN  IF d.status = "downloading"
           THEN IF HookRaises(d)
                THEN UNCHANGED processing_jobs
                ELSE SetItem(last, "progress", HookPercent(d))
           ELSE IF d.status = "finished"
           THEN SetItem(last, "progress", 90)
           ELSE UNCHANGED processing_jobs
    /\ response' = NoResponse
    /\ UNCHANGED <<dns, vcall, pc, exc, disk, dirs, tasks, runVars, sideVars>>

\* lines 350-358, called by yt-dlp on the runner's thread during download
progress_hook(job_id, d) ==
    /\ At(job_id, "L365")
    /\ IF d.status = "downloading"
       THEN IF HookRaises(d)
            THEN UNCHANGED processing_jobs
            ELSE SetItem(job_id, "progress", HookPercent(d))
       ELSE IF d.status = "finished"
       THEN SetItem(job_id, "progress", 90)
       ELSE UNCHANGED processing_jobs
    /\ response' = NoResponse
    /\ UNCHANGED <<dns, vcall, pc, exc, disk, dirs, tasks, runVars, sideVars>>

\* line 365 returns, yt-dlp having written the output file or not.  No handler
\* looks at the disk before the status is completed (line 399), so the file
\* appears here; what a download that raises or blocks leaves behind is not
\* kept.
Download_Returns(job_id, produced) ==
    /\ At(job_id, "L365")
    /\ Goto(job_id, "L367")
    /\ disk' = IF produced THEN disk \cup {OutputFile(job_id)} ELSE disk
    /\ response' = NoResponse
    /\ UNCHANGED <<dns, vcall, processing_jobs, exc, dirs, tasks, runVars, sideVars>>

\* line 365 raises
Download_Raises(job_id, text) ==
    /\ At(job_id, "L365")
    /\ Raise(job_id, text)
    /\ response' = NoResponse
    /\ UNCHANGED <<dns, vcall, processing_jobs, disk, dirs, tasks, runVars, sideVars>>

\* line 365 neither returns nor raises: the call is given no timeout
Download_Blocks(job_id) ==
    /\ At(job_id, "L365")
    /\ Goto(job_id, "blocked")
    /\ response' = NoResponse
    /\ UNCHANGED <<dns, vcall, processing_jobs, exc, disk, dirs, tasks, runVars, sideVars>>

\* line 367
Run_Progress100(job_id) ==
    /\ At(job_id, "L367")
    /\ SetItem(job_id, "progress", 100)
    /\ Goto(job_id, "L368")
    /\ response' = NoResponse
    /\ UNCHANGED <<dns, vcall, exc, disk, dirs, tasks, runVars, sideVars>>

\* lines 368 and 369 in the other order: the download reference first
Run_Completed_url_first(job_id) ==
    /\ At(job_id, "L368")
    /\ SetItem(job_id, "download_url", DownloadUrl(job_id))
    /\ Goto(job_id, "L369")
    /\ response' = NoResponse
    /\ UNCHANGED <<dns, vcall, exc, disk, dirs, tasks, runVars, sideVars>>

\* line 368
Run_Completed(job_id) ==
    /\ At(job_id, "L368")
    /\ SetItem(job_id, "status", "completed")
    /\ Goto(job_id, "L369")
    /\ response' = NoResponse
    /\ UNCHANGED <<dns, vcall, exc, disk, dirs, tasks, runVars, sideVars>>

\* line 369
Run_DownloadUrl(job_id) ==
    /\ At(job_id, "L369")
    /\ SetItem(job_id, "download_url", DownloadUrl(job_id))
    /\ Goto(job_id, "L370")
    /\ response' = NoResponse
    /\ UNCHANGED <<dns, vcall, exc, disk, dirs, tasks, runVars, sideVars>>

\* line 370 followed by a statement that raises inside the try block
Run_FilePath_raising(job_id) ==
    /\ At(job_id, "L370")
    /\ SetItem(job_id, "file_path", OutputFile(job_id))
    /\ Raise(job_id, "")
    /\ response' = NoResponse
    /\ UNCHANGED <<dns, vcall, disk, dirs, tasks, runVars, sideVars>>

\* line 370
Run_FilePath(job_id) ==
    /\ At(job_id, "L370")
    /\ SetItem(job_id, "file_path", OutputFile(job_id))
    /\ Goto(job_id, "done")
    /\ response' = NoResponse
    /\ UNCHANGED <<dns, vcall, exc, disk, dirs, tasks, runVars, sideVars>>

\* the except clause starting the download again instead of failing the job
Run_Failed_retrying(job_id) ==
    /\ At(job_id, "L376")
    /\ Goto(job_id, "L365")
    /\ response' = NoResponse
    /\ UNCHANGED <<dns, vcall, processing_jobs, exc, disk, dirs, tasks, runVars, sideVars>>

\* line 376
Run_Failed(job_id) ==
    /\ At(job_id, "L376")
    /\ SetItem(job_id, "status", "failed")
    /\ Goto(job_id, "L377")
    /\ response' = NoResponse
    /\ UNCHANGED <<dns, vcall, exc, disk, dirs, tasks, runVars, sideVars>>

\* line 377
Run_Error(job_id) ==
    /\ At(job_id, "L377")
    /\ SetItem(job_id, "error", exc[job_id])
    /\ Goto(job_id, "done")
    /\ response' = NoResponse
    /\ UNCHANGED <<dns, vcall, exc, disk, dirs, tasks, runVars, sideVars>>

\* the steps of run_merge_task(job_id) that are the runner's own
RunnerStep(job_id) ==
    \/ Run_Processing(job_id)
    \/ Run_Progress10(job_id)
    \/ \E ok \in BOOLEAN : Run_Makedirs(job_id, ok)
    \/ Run_Progress100(job_id)
    \/ Run_Completed(job_id)
    \/ Run_DownloadUrl(job_id)
    \/ Run_FilePath(job_id)
    \/ Run_Failed(job_id)
    \/ Run_Error(job_id)

\* what happens inside ydl.download([url])
DownloadStep(job_id) ==
    \/ \E d \in HookEvents : progress_hook(job_id, d)
    \/ \E produced \in BOOLEAN : Download_Returns(job_id, produced)
    \/ \E text \in ExcTexts : Download_Raises(job_id, text)
    \/ Download_Blocks(job_id)

-----------------------------------------------------------------------------
(* main.py: the polling handlers *)

\* GET /process_status/{job_id}
get_process_status(job_id) ==
    /\ IF job_id \notin DOMAIN processing_jobs
       THEN response' = HTTPException(404, "Job not found")
       ELSE LET job == processing_jobs[job_id]
            IN  response' =
                   [code |-> 200, op |-> "status", job_id |-> job_id,
                    status |-> job.status, progress |-> job.progress,
                    download_url |-> job.download_url, error |-> job.error]
    /\ UNCHANGED <<dns, vcall, processing_jobs, pc, exc, disk, dirs, tasks,
                   runVars, sideVars>>

\* GET /download_file/{job_id} without the status test of line 399
download_processed_file_any_status(job_id) ==
    /\ IF job_id \notin DOMAIN processing_jobs
       THEN response' = HTTPException(404, "File not ready")
       ELSE LET file_path == processing_jobs[job_id].file_path
            IN  IF file_path = NoPath \/ file_path \notin disk
                THEN response' = HTTPException(404, "File not found")
                ELSE response' =
                        [code |-> 200, op |-> "file", job_id |-> job_id,
                         path |-> file_path, filename |-> "video.mp4"]
    /\ UNCHANGED <<dns, vcall, processing_jobs, pc, exc, disk, dirs, tasks,
                   runVars, sideVars>>

\* GET /download_file/{job_id}
download_processed_file(job_id) ==
    /\ IF job_id \notin DOMAIN processing_jobs
          \/ processing_jobs[job_id].status # "completed"
       THEN response' = HTTPException(404, "File not ready")
       ELSE LET file_path == processing_jobs[job_id].file_path
            IN  IF file_path = NoPath \/ file_path \notin disk
                THEN response' = HTTPException(404, "File not found")
                ELSE response' =
                        [code |-> 200, op |-> "file", job_id |-> job_id,
                         path |-> file_path, filename |-> "video.mp4"]
    /\ UNCHANGED <<dns, vcall, processing_jobs, pc, exc, disk, dirs, tasks,
                   runVars, sideVars>>

-----------------------------------------------------------------------------
(* main.py: the handlers that take a URL and touch no job *)

\* what yt-dlp's extract_info(safe_url, download=False) does: returns the
\* info dict, raises the bot-detection error, raises anything else
ExtractOutcomes == {"info", "bot", "error"}

\* str(e) at line 287: the HTTPException of line 210 is itself caught by the
\* except clause of line 285 and reads "403: <detail>"
FailedToProcess(o) ==
    [prefix |-> "Failed to process video: ",
     text |-> IF o = "bot" THEN "403: YouTube is STILL blocking this server."
              ELSE "ERROR: Unsupported URL"]

\* os.path.join(TEMP_DIR, f"youtube_cookies_{uuid.uuid4().hex[:8]}.txt"): the
\* first 8 hex digits of a random id, so a name can come back
CookieNames ==
    { "youtube_cookies_1a2b3c4d.txt", "youtube_cookies_9f8e7d6c.txt",
      "youtube_cookies_00c0ffee.txt" }

\* what a request meets when it handles its cookie file: whether
\* YOUTUBE_COOKIES is set, the name drawn, what open/write do (write fails
\* after open has created the file), what os.remove does
CookieRun(content, name, write, remove) ==
    [content |-> content, name |-> name, write |-> write, remove |-> remove]

\* YOUTUBE_COOKIES is not set: no file is named, written or removed
NoCookies == CookieRun(FALSE, "", "ok", "ok")

CookieRuns ==
    {NoCookies}
    \cup {CookieRun(TRUE, n, "ok", rm) : n \in CookieNames, rm \in {"ok", "fails"}}
    \cup {CookieRun(TRUE, n, w, "ok") :
             n \in CookieNames, w \in {"open fails", "write fails"}}

\* lines 93-107: the path returned (None without YOUTUBE_COOKIES and after
\* any exception) and the files in TEMP_DIR afterwards
get_cookies_path(c, files) ==
    IF ~c.content THEN [path |-> None, files |-> files]
    ELSE IF c.write = "ok" THEN [path |-> c.name, files |-> files \cup {c.name}]
    ELSE IF c.write = "write fails"
    THEN [path |-> None, files |-> files \cup {c.name}]
    ELSE [path |-> None, files |-> files]

\* lines 213-217: os.remove of the request's own file, errors swallowed
RemoveCookie(cookie_path, files, c) ==
    IF cookie_path # None /\ cookie_path \in files /\ c.remove = "ok"
    THEN files \ {cookie_path}
    ELSE files

\* POST /download with the removal of lines 213-217 placed after
\* extract_info has returned instead of in a finally clause
download_video_cleanup_on_success(url, authenticated, limited, o, c) ==
    /\ LET r == validate_url(url, dns)
           got == get_cookies_path(c, cookies)
       IN  IF limited
           THEN /\ response' = HTTPException(429, "Rate limit exceeded")
                /\ UNCHANGED cookies
           ELSE IF r.kind = "ValueError"
           THEN /\ response' = HTTPException(403, StrValueError(r))
                /\ UNCHANGED cookies
           ELSE IF o = "info"
           THEN /\ response' = [code |-> 200, op |-> "analyze", url |-> r.value,
                                cookiefile |-> got.path]
                /\ cookies' = RemoveCookie(got.path, got.files, c)
           ELSE /\ response' = [code |-> 400, op |-> "analyze", url |-> r.value,
                                cookiefile |-> got.path,
                                detail |-> FailedToProcess(o)]
                /\ cookies' = got.files
    /\ UNCHANGED <<dns, vcall, processing_jobs, pc, exc, disk, dirs, tasks,
                   runVars, san>>

\* POST /download.  authenticated: the request carries an access_token cookie
\* or a Bearer header (no line of the handler or of its decorators reads
\* either).  limited: slowapi answers 429 before the handler runs.  The
\* handler is an async function that never awaits, so it runs from its first
\* line to its answer without another request in between.  In the answer,
\* url is the URL extract_info was called with and cookiefile the
\* ydl_opts['cookiefile'] it was given.
download_video(url, authenticated, limited, o, c) ==
    /\ LET r == validate_url(url, dns)
           got == get_cookies_path(c, cookies)
       IN  IF limited
           THEN /\ response' = HTTPException(429, "Rate limit exceeded")
                /\ UNCHANGED cookies
           ELSE IF r.kind = "ValueError"
           THEN /\ response' = HTTPException(403, StrValueError(r))
                /\ UNCHANGED cookies
           ELSE /\ response' =
                      IF o = "info"
                      THEN [code |-> 200, op |-> "analyze", url |-> r.value,
                            cookiefile |-> got.path]
                      ELSE [code |-> 400, op |-> "analyze", url |-> r.value,
                            cookiefile |-> got.path,
                            detail |-> FailedToProcess(o)]
                /\ cookies' = RemoveCookie(got.path, got.files, c)
    /\ UNCHANGED <<dns, vcall, processing_jobs, pc, exc, disk, dirs, tasks,
                   runVars, san>>

\* the url query parameter of GET /stream_video, as FastAPI hands it over
StreamUrls ==
    { "https://example.com/video",
      "http://169.254.169.254/latest/meta-data/",
      "http%3A//169.254.169.254/latest/meta-data/",
      "http://[::1]/" }

\* urllib.parse.unquote on the texts above: %3A is ":"
unquote(text) ==
    IF text = "http%3A//169.254.169.254/latest/meta-data/"
    THEN "http://169.254.169.254/latest/meta-data/"
    ELSE text

\* GET /stream_video: RedirectResponse (307) to the decoded URL
stream_video(url) ==
    /\ response' = [code |-> 307, op |-> "redirect", location |-> unquote(url)]
    /\ UNCHANGED <<dns, vcall, processing_jobs, pc, exc, disk, dirs, tasks,
                   runVars, sideVars>>

-----------------------------------------------------------------------------
(* security.py: sanitize_filename.  A string is the sequence of its         *)
(* characters; U+00E9 stands for a letter outside ASCII.                     *)

\* length of the file names sanitize_filename is given
MaxLen == 4

Letters == {"a", "d", "e", "f", "i", "l", "m", "n", "o", "p", "w", "Z"}
Digits == {"4", "9"}

\* the character class [a-zA-Z0-9_\-\.] of line 81
Whitelist == Letters \cup Digits \cup {"_", "-", "."}

\* the characters file names are made of
Chars == {"a", "Z", "9", "_", "-", ".", "/", "\\", " ", "U+00E9"}

Filenames == UNION {[1..n -> Chars] : n \in 0..MaxLen}

\* s.split(sep)[-1]: what follows the last sep, all of s when it has none
RECURSIVE LastPart(_, _)
LastPart(str, sep) ==
    IF str = << >> THEN << >>
    ELSE IF \E i \in 1..Len(str) : str[i] = sep
    THEN LastPart(Tail(str), sep)
    ELSE str

\* re.sub(r'[^a-zA-Z0-9_\-\.]', '_', filename)
Substitute(str) ==
    [i \in 1..Len(str) |-> IF str[i] \in Whitelist THEN str[i] ELSE "_"]

DefaultName ==
    << "d", "o", "w", "n", "l", "o", "a", "d", "e", "d", "_",
       "f", "i", "l", "e", ".", "m", "p", "4" >>

\* lines 78-87 without the test of lines 84-85
sanitize_filename_unguarded(filename) ==
    Substitute(LastPart(LastPart(filename, "/"), "\\"))

\* lines 78-87
sanitize_filename(filename) ==
    LET safe_filename == Substitute(LastPart(LastPart(filename, "/"), "\\"))
    IN  IF safe_filename = << >> \/ safe_filename = <<".">>
           \/ safe_filename = <<".", ".">>
        THEN DefaultName
        ELSE safe_filename

NoSan == [called |-> FALSE]

\* a caller sanitizes a name
Sanitize(filename) ==
    /\ san' = [called |-> TRUE, filename |-> filename,
               result |-> sanitize_filename(filename), again |-> << >>]
    /\ UNCHANGED <<dns, vcall, jobVars, runVars, cookies>>

\* the caller sanitizes the name it was handed once more
Resanitize ==
    /\ san.called
    /\ san.again = << >>
    /\ san' = [san EXCEPT !.again = sanitize_filename(san.result)]
    /\ UNCHANGED <<dns, vcall, jobVars, runVars, cookies>>

-----------------------------------------------------------------------------
(* security.py: safe_subprocess_run *)

\* a command as the caller passes it: one string, or a list of arguments
Commands ==
    { [type |-> "str",  argv |-> <<"ffmpeg -version; rm -rf /tmp/x">>],
      [type |-> "list", argv |-> <<"ffmpeg", "-version">>],
      [type |-> "list", argv |-> <<"yt-dlp", "--dump-json", "https://example.com/video">>] }

Timeouts == {5, 300}

\* what the operating system does with the spawned command
ExecOutcomes ==
    { [kind |-> "exit", rc |-> 0, stderr |-> ""],
      [kind |-> "exit", rc |-> 1, stderr |-> "ERROR: unsupported URL"],
      [kind |-> "exit", rc |-> 2, stderr |-> ""],
      [kind |-> "timeout", rc |-> 0, stderr |-> ""],
      [kind |-> "notfound", rc |-> 0, stderr |-> ""] }

Returned(rc, stderr) ==
    [kind |-> "returned", exc |-> None, msg |-> "", rc |-> rc, stderr |-> stderr]
Raised(cls, msg, rc, stderr) ==
    [kind |-> "raised", exc |-> cls, msg |-> msg, rc |-> rc, stderr |-> stderr]

MsgUnsafe == "SECURITY ERROR: Command must be a LIST of arguments, not a string. Shell=True is forbidden."
MsgTimedOut == "Process execution timed out"

LogRecord(level, text, command, timeout) ==
    [level |-> level, text |-> text, command |-> command, timeout |-> timeout]

NoRun == [n |-> 0]

\* no process was spawned
NotSpawned == [kind |-> "notspawned", rc |-> 0, stderr |-> ""]

\* a call as an observer sees it: the arguments, what the process did (exec)
\* and what the call returned or raised (out)
RunResult(command, check, timeout, o, out) ==
    [n |-> runres.n + 1, command |-> command, check |-> check,
     timeout |-> timeout, exec |-> o, out |-> out]

\* lines 100-118 without the except clause of lines 116-118: TimeoutExpired
\* leaves the function as it is
LogAndRun_timeout_unhandled(command, check, timeout, o) ==
    LET executing == LogRecord("info", "Executing Safe Command", command, timeout)
        Result(out) == RunResult(command, check, timeout, o, out)
    IN  CASE o.kind = "notfound" ->
               /\ seclog' = Append(seclog, executing)
               /\ runres' = Result(Raised("FileNotFoundError", "", 0, ""))
               /\ UNCHANGED proc
          [] o.kind = "timeout" ->
               /\ proc' = Append(proc, command)
               /\ seclog' = Append(seclog, executing)
               /\ runres' = Result(Raised("TimeoutExpired", "", 0, ""))
          [] o.kind = "exit" /\ check /\ o.rc # 0 ->
               /\ proc' = Append(proc, command)
               /\ seclog' = seclog \o
                     <<executing,
                       LogRecord("error", "Command failed", command, timeout)>>
               /\ runres' = Result(Raised("CalledProcessError", "", o.rc, o.stderr))
          [] OTHER ->
               /\ proc' = Append(proc, command)
               /\ seclog' = Append(seclog, executing)
               /\ runres' = Result(Returned(o.rc, o.stderr))

\* lines 100-118 with subprocess.run given check=True whatever the caller
\* passed
LogAndRun_always_checked(command, check, timeout, o) ==
    LET executing == LogRecord("info", "Executing Safe Command", command, timeout)
        Result(out) == RunResult(command, check, timeout, o, out)
    IN  CASE o.kind = "notfound" ->
               /\ seclog' = Append(seclog, executing)
               /\ runres' = Result(Raised("FileNotFoundError", "", 0, ""))
               /\ UNCHANGED proc
          [] o.kind = "timeout" ->
               /\ proc' = Append(proc, command)
               /\ seclog' = seclog \o
                     <<executing,
                       LogRecord("error", "Command timed out", command, timeout)>>
               /\ runres' = Result(Raised("RuntimeError", MsgTimedOut, 0, ""))
          [] o.kind = "exit" /\ o.rc # 0 ->
               /\ proc' = Append(proc, command)
               /\ seclog' = seclog \o
                     <<executing,
                       LogRecord("error", "Command failed", command, timeout)>>
               /\ runres' = Result(Raised("CalledProcessError", "", o.rc, o.stderr))
          [] OTHER ->
               /\ proc' = Append(proc, command)
               /\ seclog' = Append(seclog, executing)
               /\ runres' = Result(Returned(o.rc, o.stderr))

\* lines 100-118: the command is logged, then subprocess.run spawns it (or
\* finds no such program); o is what happens to the process
LogAndRun(command, check, timeout, o) ==
    LET executing == LogRecord("info", "Executing Safe Command", command, timeout)
        Result(out) == RunResult(command, check, timeout, o, out)
    IN  CASE o.kind = "notfound" ->
               /\ seclog' = Append(seclog, executing)
               /\ runres' = Result(Raised("FileNotFoundError", "", 0, ""))
               /\ UNCHANGED proc
          [] o.kind = "timeout" ->
               /\ proc' = Append(proc, command)
               /\ seclog' = seclog \o
                     <<executing,
                       LogRecord("error", "Command timed out", command, timeout)>>
               /\ runres' = Result(Raised("RuntimeError", MsgTimedOut, 0, ""))
          [] o.kind = "exit" /\ check /\ o.rc # 0 ->
               /\ proc' = Append(proc, command)
               /\ seclog' = seclog \o
                     <<executing,
                       LogRecord("error", "Command failed", command, timeout)>>
               /\ runres' = Result(Raised("CalledProcessError", "", o.rc, o.stderr))
          [] OTHER ->
               /\ proc' = Append(proc, command)
               /\ seclog' = Append(seclog, executing)
               /\ runres' = Result(Returned(o.rc, o.stderr))

\* safe_subprocess_run without the isinstance test of line 97
safe_subprocess_run_untested(command, check, timeout, o) ==
    /\ runres.n < MaxRuns
    /\ LogAndRun(command, check, timeout, o)
    /\ UNCHANGED <<dns, vcall, jobVars, sideVars>>

\* lines 90-118; the outcome o is not looked at before subprocess.run
safe_subprocess_run(command, check, timeout, o) ==
    /\ runres.n < MaxRuns
    /\ IF command.type = "str"
       THEN /\ runres' = RunResult(command, check, timeout, NotSpawned,
                                   Raised("RuntimeError", MsgUnsafe, 0, ""))
            /\ UNCHANGED <<proc, seclog>>
       ELSE LogAndRun(command, check, timeout, o)
    /\ UNCHANGED <<dns, vcall, jobVars, sideVars>>

-----------------------------------------------------------------------------
(* The specifications *)

\* the server after startup_event: no job, an empty TEMP_DIR
Init ==
    /\ dns = DNS0
    /\ vcall = NoCall
    /\ processing_jobs = << >>
    /\ pc = [j \in JobIds |-> "idle"]
    /\ exc = [j \in JobIds |-> None]
    /\ disk = {}
    /\ dirs = {}
    /\ tasks = [j \in JobIds |-> NoTask]
    /\ response = NoResponse
    /\ proc = << >>
    /\ seclog = << >>
    /\ runres = NoRun
    /\ cookies = {}
    /\ san = NoSan

\* the requests the job endpoints are sent
SubmitUrls ==
    { u \in Urls : u.text \in { "https://example.com/video",
                                "http://169.254.169.254/latest/meta-data/",
                                "example.com/video" } }

Next ==
    \/ \E u \in SubmitUrls, q \in Qualities, limited \in BOOLEAN :
          process_video(u, q, limited)
    \/ \E j \in JobIds : RunnerStep(j)
    \/ \E j \in JobIds : DownloadStep(j)
    \/ \E j \in JobIds : get_process_status(j)
    \/ \E j \in JobIds : download_processed_file(j)

Spec == Init /\ [][Next]_vars

\* the worker thread of a started task is scheduled again and again; a
\* download that has not blocked ends
FairSpec ==
    /\ Spec
    /\ \A j \in JobIds : WF_vars(RunnerStep(j))
    /\ \A j \in JobIds :
          WF_vars(\/ \E produced \in BOOLEAN : Download_Returns(j, produced)
                  \/ \E t \in ExcTexts : Download_Raises(j, t))

\* validate_url alone, under every resolver answer
ValidateNext ==
    \/ \E u \in Urls : Validate(u)
    \/ Revalidate
    \/ \E n \in Names : \E ans \in DnsAnswers(n) : DnsChange(n, ans)

ValidateSpec == Init /\ [][ValidateNext]_vars

\* the answers a name takes between two requests to the handlers
GateAnswers(n) ==
    IF n = "example.com"
    THEN {[a |-> IP4(93, 184, 216, 34), aaaa |-> NoAddr],
          [a |-> IP4(127, 0, 0, 1), aaaa |-> NoAddr],
          [a |-> NoAddr, aaaa |-> NoAddr]}
    ELSE DnsAnswers(n)

\* the handlers that take a URL, with the resolver's answers changing
\* between requests, in a process started without YOUTUBE_COOKIES
GateNext ==
    \/ \E u \in SubmitUrls, q \in Qualities, limited \in BOOLEAN :
          process_video(u, q, limited)
    \/ \E u \in Urls, authenticated \in BOOLEAN, limited \in BOOLEAN,
          o \in ExtractOutcomes :
             download_video(u, authenticated, limited, o, NoCookies)
    \/ \E t \in StreamUrls : stream_video(t)
    \/ \E n \in Names : \E ans \in GateAnswers(n) : DnsChange(n, ans)

GateSpec == Init /\ [][GateNext]_vars

\* the metadata query in a process started with or without YOUTUBE_COOKIES
CookieNext ==
    \E u \in SubmitUrls, authenticated \in BOOLEAN, limited \in BOOLEAN,
       o \in ExtractOutcomes, c \in CookieRuns :
          download_video(u, authenticated, limited, o, c)

CookieSpec == Init /\ [][CookieNext]_vars

\* sanitize_filename alone: one name is sanitized, then its result
SanitizeNext ==
    \/ san = NoSan /\ \E f \in Filenames : Sanitize(f)
    \/ Resanitize

SanitizeSpec == Init /\ [][SanitizeNext]_vars

\* safe_subprocess_run alone
RunNext ==
    \E c \in Commands, check \in BOOLEAN, t \in Timeouts, o \in ExecOutcomes :
        safe_subprocess_run(c, check, t, o)

RunSpec == Init /\ [][RunNext]_vars

-----------------------------------------------------------------------------
(* Properties of validate_url *)

IsForbidden(r) == r.kind = "ValueError" /\ r.msg = MsgForbidden
IsUnresolvable(r) == r.kind = "ValueError" /\ r.msg = MsgUnresolved

\* C1: a URL whose host has only addresses inside the blocked networks (an
\* IPv4 or IPv6 literal, or a name with only such records) is rejected with
\* the forbidden-network error.
C1_BlockedHostIsForbidden ==
    (vcall # NoCall /\ vcall.addrs # {}
        /\ \A a \in vcall.addrs : InBlockedSubnet(a))
    => IsForbidden(vcall.result)

C23_ResolverErrorIsUnresolvable ==
    (vcall # NoCall /\ vcall.resolved.raised \notin {None, "not reached"})
    => IsUnresolvable(vcall.result)

-----------------------------------------------------------------------------
(* Properties of sanitize_filename *)

\* C25: the name sanitize_filename returns is made of whitelisted characters
\* only (so it holds no "/" and no "\"), is not empty, "." or "..", and is
\* downloaded_file.mp4 when the name left after cutting the directories and
\* substituting is empty, "." or ".."; sanitizing the returned name again
\* returns it unchanged.
C25_SanitizedNameIsSafe ==
    san.called
    => /\ \A i \in 1..Len(san.result) :
             /\ san.result[i] \in Whitelist
             /\ san.result[i] \notin {"/", "\\"}
       /\ san.result \notin {<< >>, <<".">>, <<".", ".">>}
       /\ san.filename \in {<< >>, <<".">>, <<".", ".">>, <<"a", "/">>,
                             <<"/", ".", ".">>, <<"a", "\\", ".">>,
                             <<"a", "/", ".", ".">>}
          => san.result = DefaultName
       /\ san.again # << >> => san.again = san.result

\* a name with a directory part and a character outside the whitelist was
\* sanitized twice
C25_Witness ==
    /\ san.called
    /\ san.filename = <<"/", "U+00E9", ".">>
    /\ san.result = <<"_", ".">>
    /\ san.again # << >>

-----------------------------------------------------------------------------
(* Properties of the job registry and the runner *)

Statuses == {"queued", "processing", "completed", "failed"}
Terminal == {"completed", "failed"}
Transitions ==
    { <<"queued", "processing">>, <<"processing", "completed">>,
      <<"processing", "failed">> }

\* C3: an entry is created with status queued; the first write to a queued
\* entry sets its status to processing; the status is always one of queued,
\* processing, completed, failed; every change of status is one of
\* queued->processing, processing->completed, processing->failed, so none
\* leaves completed or failed.
C3_JobStateMachine ==
    /\ [](\A j \in DOMAIN processing_jobs : processing_jobs[j].status \in Statuses)
    /\ [][\A j \in DOMAIN processing_jobs' :
             IF j \notin DOMAIN processing_jobs
             THEN processing_jobs'[j].status = "queued"
             ELSE LET old == processing_jobs[j]
                      new == processing_jobs'[j]
                  IN  /\ old.status = new.status
                         \/ <<old.status, new.status>> \in Transitions
                      /\ (old.status = "queued" /\ new # old)
                         => new.status = "processing"]_vars

\* one job has run to completed and another to failed
C3_Witness ==
    /\ \E j \in DOMAIN processing_jobs :
          pc[j] = "done" /\ processing_jobs[j].status = "completed"
    /\ \E j \in DOMAIN processing_jobs :
          pc[j] = "done" /\ processing_jobs[j].status = "failed"

IsStatusSnapshot(r) == r.code = 200 /\ r.op = "status"

\* C4: a status snapshot that says completed carries its download reference,
\* and an entry that reads completed holds its artifact path.
C4_CompletedCarriesArtifact ==
    /\ (IsStatusSnapshot(response) /\ response.status = "completed")
       => response.download_url # NoUrl
    /\ \A j \in DOMAIN processing_jobs :
          processing_jobs[j].status = "completed"
          => processing_jobs[j].file_path # NoPath

\* C5: a status snapshot that says failed carries a non-empty error message.
C5_FailedCarriesError ==
    (IsStatusSnapshot(response) /\ response.status = "failed")
    => (response.error # None /\ response.error # "")

\* C6: the registry never holds more than Capacity entries.
C6_RegistryWithinCapacity ==
    Cardinality(DOMAIN processing_jobs) <= Capacity

\* the entry inserted first (ids are handed out in increasing order)
Oldest == CHOOSE j \in DOMAIN processing_jobs :
             \A k \in DOMAIN processing_jobs : j <= k

\* C7: a submission admitted while the registry holds Capacity entries
\* removes the entry inserted first and its job directory, and the new job
\* is present with status queued.
C7_OldestEvictedAtCapacity ==
    [][(/\ Cardinality(DOMAIN processing_jobs) >= Capacity
        /\ DOMAIN processing_jobs # {}
        /\ response'.code = 200 /\ response'.op = "submit")
       => /\ Oldest \notin DOMAIN processing_jobs'
          /\ Oldest \notin dirs'
          /\ response'.job_id \in DOMAIN processing_jobs'
          /\ processing_jobs'[response'.job_id].status = "queued"]_vars

\* C8: progress is always in 0..100 and never decreases while the job is
\* processing.
C8_ProgressMonotone ==
    /\ [](\A j \in DOMAIN processing_jobs :
             processing_jobs[j].progress \in 0..100)
    /\ [][\A j \in DOMAIN processing_jobs :
             (processing_jobs[j].status = "processing"
                 /\ processing_jobs'[j].status = "processing")
             => processing_jobs'[j].progress >= processing_jobs[j].progress]_vars

\* C9: every submitted job eventually reaches completed or failed.
C9_EveryJobTerminates ==
    \A j \in JobIds :
        (j \in DOMAIN processing_jobs)
        ~> (j \in DOMAIN processing_jobs
               /\ processing_jobs[j].status \in Terminal)

\* C21: an entry, once created, changes only in a step of the runner of its
\* own job (the statements of run_merge_task(j) and the hook calls of its
\* download); no step that changes an entry is a step of get_process_status
\* or download_processed_file; a step that changes the entry of job k is a
\* step of no other job's runner; no entry is removed.
C21_SingleWriter ==
    [][/\ \A j \in DOMAIN processing_jobs :
             /\ j \in DOMAIN processing_jobs'
             /\ processing_jobs'[j] # processing_jobs[j]
                => (RunnerStep(j) \/ DownloadStep(j))
       /\ processing_jobs' # processing_jobs
             => \A j \in JobIds :
                   ~(get_process_status(j) \/ download_processed_file(j))
       /\ \A k \in DOMAIN processing_jobs :
             processing_jobs'[k] # processing_jobs[k]
             => \A j \in JobIds \ {k} : ~(RunnerStep(j) \/ DownloadStep(j))]_vars

\* two runners are inside their downloads, their hooks having written
\* different progress values, and a status request has just been answered
C21_Witness ==
    /\ IsStatusSnapshot(response)
    /\ \E j, k \in DOMAIN processing_jobs :
          /\ j # k
          /\ pc[j] = "L365" /\ pc[k] = "L365"
          /\ processing_jobs[j].progress = 80
          /\ processing_jobs[k].progress = 90

\* positions of run_merge_task from which ydl.download has been entered
Entered == {"L365", "blocked", "L367", "L368", "L369", "L370", "L376",
            "L377", "done"}

\* C22: an exception raised in run_merge_task(j) (by os.makedirs or by the
\* download) ends with job j failed and its error holding the exception's
\* text, the steps that record it changing no other entry; the download is
\* entered at most once per job; the failed entry stays in the registry and
\* a status request for it answers 200 with status failed and that text.
C22_JobErrorCaptured ==
    /\ [](\A j \in DOMAIN processing_jobs :
             /\ (pc[j] \in {"L377", "done"} /\ exc[j] # None)
                => processing_jobs[j].status = "failed"
             /\ (pc[j] = "done" /\ exc[j] # None)
                => processing_jobs[j].error = exc[j])
    /\ [][\A j \in DOMAIN processing_jobs :
             /\ processing_jobs'[j] # processing_jobs[j]
                => \A k \in JobIds \ {j} : ~(Run_Failed(k) \/ Run_Error(k))
             /\ (pc[j] \in Entered /\ pc'[j] = "L365") => pc[j] = "L365"
             /\ processing_jobs[j].status = "failed"
                => /\ j \in DOMAIN processing_jobs'
                   /\ processing_jobs'[j].status = "failed"
             /\ (pc[j] = "done" /\ processing_jobs[j].status = "failed"
                   /\ get_process_status(j))
                => /\ IsStatusSnapshot(response')
                   /\ response'.status = "failed"
                   /\ response'.error = exc[j]]_vars

\* a status request for a job whose download raised was answered with the
\* error text while another job had completed
C22_Witness ==
    /\ IsStatusSnapshot(response)
    /\ response.status = "failed"
    /\ response.error = "ERROR: unable to download video data"
    /\ pc[response.job_id] = "done"
    /\ \E k \in DOMAIN processing_jobs :
          processing_jobs[k].status = "completed"

\* C24: the directory a runner creates and the file its download writes
\* are named by its own job id, and so is the artifact path it records; two
\* jobs never hold the same artifact path, and every file lies in the
\* directory of a job of the registry.
C24_DirectoriesOwnedByJob ==
    /\ [](\A j \in DOMAIN processing_jobs :
             processing_jobs[j].file_path # NoPath
             => /\ processing_jobs[j].file_path.dir = j
                /\ \A k \in DOMAIN processing_jobs \ {j} :
                      processing_jobs[k].file_path
                         # processing_jobs[j].file_path)
    /\ [](/\ dirs \subseteq DOMAIN processing_jobs
          /\ \A f \in disk : f.dir \in dirs)
    /\ [][(dirs' # dirs \/ disk' # disk)
             => \A j \in JobIds :
                   (RunnerStep(j) \/ DownloadStep(j))
                   => /\ (dirs' \ dirs) \subseteq {j}
                      /\ \A f \in disk' \ disk : f.dir = j]_vars

\* two jobs have run to the end, each with its file on disk
C24_Witness ==
    \E j, k \in DOMAIN processing_jobs :
        /\ j # k
        /\ pc[j] = "done" /\ pc[k] = "done"
        /\ processing_jobs[j].file_path \in disk
        /\ processing_jobs[k].file_path \in disk

NotReady == HTTPException(404, "File not ready")

IsFileResponse(r) == r.code = 200 /\ r.op = "file"

\* C16: download_processed_file answers with a file only for a job that
\* exists, whose status is completed and whose recorded file is on disk; for
\* an unknown, queued, processing or failed job it answers 404 "File not
\* ready"; it changes no entry, file or directory.
C16_ArtifactOnlyWhenCompleted ==
    /\ [](IsFileResponse(response)
            => /\ response.job_id \in DOMAIN processing_jobs
               /\ processing_jobs[response.job_id].status = "completed"
               /\ processing_jobs[response.job_id].file_path \in disk
               /\ response.path = processing_jobs[response.job_id].file_path)
    /\ [][\A j \in JobIds :
             download_processed_file(j)
             => /\ UNCHANGED <<processing_jobs, disk, dirs>>
                /\ (j \notin DOMAIN processing_jobs
                      \/ processing_jobs[j].status
                            \in {"queued", "processing", "failed"})
                   => response' = NotReady]_vars

\* the file of a completed job was served while another job had failed
C16_Witness ==
    /\ IsFileResponse(response)
    /\ \E j \in DOMAIN processing_jobs : processing_jobs[j].status = "failed"

\* C17: once the file of a completed job has been served, the job's entry
\* and its directory are removed.
C17_RetrievalEvictsJob ==
    \A j \in JobIds :
        (IsFileResponse(response) /\ response.job_id = j)
        ~> (j \notin DOMAIN processing_jobs /\ j \notin dirs)

\* C19: a job is completed only if its produced file exists; a runner whose
\* download returned without producing a file ends with the job failed, the
\* reason being "no file produced".
C19_NoFileMeansFailed ==
    \A j \in DOMAIN processing_jobs :
        /\ processing_jobs[j].status = "completed" => OutputFile(j) \in disk
        /\ (pc[j] = "done" /\ exc[j] = None /\ OutputFile(j) \notin disk)
           => /\ processing_jobs[j].status = "failed"
              /\ processing_jobs[j].error = "no file produced"

\* C20: a status snapshot that shows progress 100 shows status completed,
\* and an entry whose status is failed never holds progress 100.
C20_FullProgressOnlyWhenCompleted ==
    /\ (IsStatusSnapshot(response) /\ response.progress = 100)
       => response.status = "completed"
    /\ \A j \in DOMAIN processing_jobs :
          processing_jobs[j].status = "failed"
          => processing_jobs[j].progress # 100

-----------------------------------------------------------------------------
(* Properties of the request handlers *)

\* C13: a submission whose URL validate_url rejects is answered 403, and
\* that step creates no entry, schedules no runner and leaves the registry
\* as it was; an entry is created only in a step that answers a submission
\* whose URL validate_url accepts under the resolver's answer of that step.
C13_ValidationGatesJobCreation ==
    [][/\ \A u \in SubmitUrls, q \in Qualities :
             (process_video(u, q, FALSE)
                 /\ validate_url(u, dns).kind = "ValueError")
             => /\ response'.code = 403
                /\ UNCHANGED <<processing_jobs, pc, tasks, dirs, disk>>
       /\ response'.code = 403
             => UNCHANGED <<processing_jobs, pc, tasks>>
       /\ \A j \in DOMAIN processing_jobs' \ DOMAIN processing_jobs :
             /\ response' = [code |-> 200, op |-> "submit", job_id |-> j]
             /\ tasks'[j] # NoTask
             /\ validate_url(UrlOfText(tasks'[j].url), dns).kind = "ok"]_vars

\* a submission was answered 403 while a job submitted before it is running
C13_Witness ==
    /\ response.code = 403
    /\ \E j \in DOMAIN processing_jobs : pc[j] \notin {"idle", "scheduled"}

\* the URL a handler handed on in the step that ends: to extract_info, to
\* the background task, or to the client as the redirect target
HandedOn(r, t) ==
    IF r.code = 307 THEN {r.location}
    ELSE IF r.code \in {200, 400} /\ r.op = "analyze" THEN {r.url}
    ELSE IF r.code = 200 /\ r.op = "submit" THEN {t[r.job_id].url}
    ELSE {}

\* C14: every URL a handler hands on (metadata query, job submission,
\* stream redirect) is one validate_url accepts under the resolver's answer
\* of that request.
C14_EveryHandlerValidates ==
    [][response' # response
       => \A text \in HandedOn(response', tasks') :
             validate_url(UrlOfText(text), dns).kind = "ok"]_vars

\* C15: every 403 answer to a rejected URL carries the same detail, whatever
\* the cause (no hostname, unresolvable hostname, blocked network), and the
\* detail never holds the resolved address.
C15_BlockedResponseIsGeneric ==
    /\ [](response.code = 403 => response.detail.ip = NoAddr)
    /\ [][(response.code = 403 /\ response'.code = 403)
            => response'.detail = response.detail]_vars

\* C18: a request to /download that carries no credentials is answered 401,
\* extract_info not having been called.
C18_DownloadRequiresAuthentication ==
    [][\A u \in Urls, o \in ExtractOutcomes :
          download_video(u, FALSE, FALSE, o, NoCookies)
          => response'.code = 401]_vars

\* the request got a cookie file from get_cookies_path
WroteCookie(u, limited, c) ==
    /\ ~limited
    /\ validate_url(u, dns).kind = "ok"
    /\ c.content
    /\ c.write = "ok"

-----------------------------------------------------------------------------
(* Properties of safe_subprocess_run *)

\* C10: a call whose command is a single string raises the RuntimeError of
\* line 98, spawns no process and logs nothing.
C10_StringCommandRejected ==
    [][(runres'.n # runres.n /\ runres'.command.type = "str")
       => /\ runres'.out.kind = "raised"
          /\ runres'.out.exc = "RuntimeError"
          /\ runres'.out.msg = MsgUnsafe
          /\ proc' = proc
          /\ seclog' = seclog]_vars

\* a string command was passed after a list command had been run
C10_Witness ==
    /\ runres.n > 0
    /\ runres.command.type = "str"
    /\ Len(proc) > 0

\* what a caller holds of an outcome that is an error: its class and message
ErrorOf(out) == [exc |-> out.exc, msg |-> out.msg]

ExecutionTimeout == [exc |-> "RuntimeError", msg |-> MsgTimedOut]

\* C11: a command that exceeds its timeout makes the call raise the timeout
\* error (RuntimeError "Process execution timed out"); a command that exits
\* non-zero never makes the call raise that error, so no call yields both
\* and the class of the error tells the two apart.
C11_TimeoutDistinctFromFailure ==
    [][runres'.n # runres.n
       => /\ runres'.exec.kind = "timeout"
             => /\ runres'.out.kind = "raised"
                /\ ErrorOf(runres'.out) = ExecutionTimeout
          /\ (runres'.exec.kind = "exit" /\ runres'.exec.rc # 0)
             => /\ ErrorOf(runres'.out) # ExecutionTimeout
                /\ runres'.out.exc # ExecutionTimeout.exc
          /\ runres'.out.exc = "CalledProcessError"
             => runres'.exec.kind = "exit" /\ runres'.exec.rc # 0]_vars

\* one call timed out after another had failed with a non-zero exit
C11_Witness ==
    /\ runres.n > 1
    /\ runres.exec.kind = "timeout"
    /\ runres.out.kind = "raised"
    /\ \E i \in 1..Len(seclog) : seclog[i].text = "Command failed"

\* C12 as stated: for either value of check, a process that exits non-zero
\* makes the call raise CalledProcessError carrying the captured stderr; the
\* call never returns normally.
C12_NonZeroExitAlwaysFails ==
    [][(runres'.n # runres.n
          /\ runres'.exec.kind = "exit" /\ runres'.exec.rc # 0)
       => /\ runres'.out.kind = "raised"
          /\ runres'.out.exc = "CalledProcessError"
          /\ runres'.out.stderr = runres'.exec.stderr]_vars

\* C12 amended: with check true a non-zero exit makes the call raise
\* CalledProcessError carrying the exit code and the captured stderr; with
\* check false the call returns the completed process, exit code and stderr
\* in it.
C12_NonZeroExitFailsWhenChecked ==
    [][(runres'.n # runres.n
          /\ runres'.exec.kind = "exit" /\ runres'.exec.rc # 0)
       => /\ runres'.out.rc = runres'.exec.rc
          /\ runres'.out.stderr = runres'.exec.stderr
          /\ IF runres'.check
             THEN runres'.out.kind = "raised"
                  /\ runres'.out.exc = "CalledProcessError"
             ELSE runres'.out.kind = "returned"]_vars

\* a call with check false returned a process that had exited non-zero
C12_Witness ==
    /\ runres.n > 0
    /\ ~runres.check
    /\ runres.exec.kind = "exit"
    /\ runres.exec.rc = 1
    /\ runres.out.kind = "returned"

=============================================================================
